---- MODULE Spec2Model ----
(***************************************************************************)
(* Model of main.py, the PostgreSQL MCP server of a DVD-rental database.   *)
(*                                                                         *)
(* Three specifications share the module:                                  *)
(*   SpecRental  rent_movie and return_movie, run by concurrent callers,   *)
(*               one statement per step, over a READ COMMITTED database;   *)
(*   SpecQuery   run_select_query: the prefix guard, the LIMIT suffix and  *)
(*               the execution of the resulting text;                      *)
(*   SpecSearch  search_movies: the assembled WHERE clause over the        *)
(*               film / film_category / category join.                     *)
(***************************************************************************)
EXTENDS Integers, Sequences, FiniteSets, TLC

VARIABLES
    rental,         \* committed rows of table rental
    rental_id_seq,  \* next value of the rental_id sequence
    clock,          \* database wall clock
    pc,             \* per caller: the statement it is about to run
    args,           \* per caller: arguments of the current (or last) call
    txn,            \* per caller: state of its open transaction
    result,         \* per caller: what the last finished call returned
    calls,          \* per caller: number of invocations started
    query,          \* run_select_query: arguments of the last call
    sent,           \* run_select_query: text the last call gave cur.execute
    connections,    \* run_select_query: connections the last call opened
    outcome,        \* run_select_query: "none", "raised", "db_error", "rows"
    film,           \* rows of table film
    film_category,  \* rows of table film_category
    search,         \* search_movies: arguments of the last call
    rows            \* search_movies: rows returned by the last call

rentalVars == <<rental, rental_id_seq, clock, pc, args, txn, result, calls>>
queryVars  == <<query, sent, connections, outcome>>
searchVars == <<film, film_category, search, rows>>
vars       == <<rentalVars, queryVars, searchVars>>

-----------------------------------------------------------------------------
(* Bounds *)
NumProcs       == 2
MaxCalls       == 2
MaxClock       == 3
NumInventory   == 1

Procs       == 1 .. NumProcs
Inventories == 1 .. NumInventory
Customers   == {2}
Staff       == {3}

NULL == 0

-----------------------------------------------------------------------------
(* Text: a Python str is a sequence of one-character strings *)

UpperCase == <<"A", "B", "C", "D", "E", "F", "G", "H", "I", "J", "K", "L", "M",
               "N", "O", "P", "Q", "R", "S", "T", "U", "V", "W", "X", "Y", "Z">>
LowerCase == <<"a", "b", "c", "d", "e", "f", "g", "h", "i", "j", "k", "l", "m",
               "n", "o", "p", "q", "r", "s", "t", "u", "v", "w", "x", "y", "z">>
Whitespace == {" ", "\t"}

\* str.lower() on one character
LowerChar(c) ==
    IF \E i \in 1 .. 26 : UpperCase[i] = c
    THEN LowerCase[CHOOSE i \in 1 .. 26 : UpperCase[i] = c]
    ELSE c

\* str.lower()
Lower(s) == [i \in 1 .. Len(s) |-> LowerChar(s[i])]

\* str.lstrip(chars) and str.rstrip(chars)
RECURSIVE LStripChars(_, _)
LStripChars(s, chars) ==
    IF s # <<>> /\ Head(s) \in chars THEN LStripChars(Tail(s), chars) ELSE s

RECURSIVE RStripChars(_, _)
RStripChars(s, chars) ==
    IF s # <<>> /\ s[Len(s)] \in chars
    THEN RStripChars(SubSeq(s, 1, Len(s) - 1), chars)
    ELSE s

\* str.strip() with no argument
Strip(s) == RStripChars(LStripChars(s, Whitespace), Whitespace)

\* str.startswith(prefix)
StartsWith(s, prefix) ==
    /\ Len(s) >= Len(prefix)
    /\ SubSeq(s, 1, Len(prefix)) = prefix

EndsWith(s, suffix) ==
    /\ Len(s) >= Len(suffix)
    /\ SubSeq(s, Len(s) - Len(suffix) + 1, Len(s)) = suffix

\* number of occurrences of pat in s
CountSub(s, pat) ==
    Cardinality({i \in 1 .. Len(s) :
                    i + Len(pat) - 1 <= Len(s)
                    /\ SubSeq(s, i, i + Len(pat) - 1) = pat})

Digits == <<"0", "1", "2", "3", "4", "5", "6", "7", "8", "9">>

\* str(n) for a non-negative int, as the f-string formats the limit
RECURSIVE Decimal(_)
Decimal(n) ==
    IF n < 10 THEN <<Digits[n + 1]>>
    ELSE Decimal(n \div 10) \o <<Digits[(n % 10) + 1]>>

KwSelect == <<"s", "e", "l", "e", "c", "t">>
KwDelete == <<"d", "e", "l", "e", "t", "e">>
KwLimit  == <<"l", "i", "m", "i", "t">>
LimitSuffix == <<" ", "L", "I", "M", "I", "T", " ">>

-----------------------------------------------------------------------------
(* Table rental and the two mutating tools *)

RentalRow(id, date, inv, cust, staff, ret) ==
    [rental_id |-> id, rental_date |-> date, inventory_id |-> inv,
     customer_id |-> cust, staff_id |-> staff, return_date |-> ret]

\* the availability query with the null test inverted
OpenRentals_NotNull(tbl, inv) ==
    {r \in tbl : r.inventory_id = inv /\ r.return_date # NULL}

\* SELECT rental_id FROM rental WHERE inventory_id = %s AND return_date IS NULL
OpenRentals(tbl, inv) ==
    {r \in tbl : r.inventory_id = inv /\ r.return_date = NULL}

\* SELECT return_date FROM rental WHERE rental_id = %s
RentalById(tbl, id) == {r \in tbl : r.rental_id = id}

\* UPDATE rental SET return_date = NOW() WHERE rental_id = %s
UpdateReturnDate(tbl, id, now) ==
    {IF r.rental_id = id THEN [r EXCEPT !.return_date = now] ELSE r : r \in tbl}

\* line 172: f"Error: Inventory item {inventory_id} is already rented out."
MsgAlreadyRented(inventory_id) ==
    <<"E", "r", "r", "o", "r", ":", " ", "I", "n", "v", "e", "n", "t", "o",
      "r", "y", " ", "i", "t", "e", "m", " ">>
    \o Decimal(inventory_id) \o
    <<" ", "i", "s", " ", "a", "l", "r", "e", "a", "d", "y", " ", "r", "e",
      "n", "t", "e", "d", " ", "o", "u", "t", ".">>

\* line 185: f"Successfully rented. Rental ID: {rental_id}"
MsgRented(rental_id) ==
    <<"S", "u", "c", "c", "e", "s", "s", "f", "u", "l", "l", "y", " ", "r",
      "e", "n", "t", "e", "d", ".", " ", "R", "e", "n", "t", "a", "l", " ",
      "I", "D", ":", " ">>
    \o Decimal(rental_id)

\* line 201: f"Error: Rental ID {rental_id} not found."
MsgNotFound(rental_id) ==
    <<"E", "r", "r", "o", "r", ":", " ", "R", "e", "n", "t", "a", "l", " ",
      "I", "D", " ">>
    \o Decimal(rental_id) \o
    <<" ", "n", "o", "t", " ", "f", "o", "u", "n", "d", ".">>

\* line 203: f"Error: Rental ID {rental_id} already returned on {row[0]}."
\* (a timestamp prints as the number of its clock reading)
MsgAlreadyReturned(rental_id, return_date) ==
    <<"E", "r", "r", "o", "r", ":", " ", "R", "e", "n", "t", "a", "l", " ",
      "I", "D", " ">>
    \o Decimal(rental_id) \o
    <<" ", "a", "l", "r", "e", "a", "d", "y", " ", "r", "e", "t", "u", "r",
      "n", "e", "d", " ", "o", "n", " ">>
    \o Decimal(return_date) \o <<".">>

\* line 215: f"Successfully returned rental {rental_id}."
MsgReturned(rental_id) ==
    <<"S", "u", "c", "c", "e", "s", "s", "f", "u", "l", "l", "y", " ", "r",
      "e", "t", "u", "r", "n", "e", "d", " ", "r", "e", "n", "t", "a", "l",
      " ">>
    \o Decimal(rental_id) \o <<".">>

\* A call that returned a str (raised = FALSE) or raised an exception.
Returned(text) == [raised |-> FALSE, text |-> text]
NoResult == [raised |-> FALSE, text |-> <<>>]

\* the already-returned test left out
AlreadyReturned_Never(row) == FALSE

\* line 202: if row[0]
AlreadyReturned(row) == row.return_date # NULL

\* the bind parameters given in the order of the function's arguments
NewRental_ArgOrder(id, now, a) ==
    RentalRow(id, now, a.customer_id, a.inventory_id, a.staff_id, NULL)

\* lines 175-182: the row INSERT builds from (inventory_id, customer_id,
\* staff_id), with rental_date = NOW() and no return_date
NewRental(id, now, a) ==
    RentalRow(id, now, a.inventory_id, a.customer_id, a.staff_id, NULL)
NoArgs   == [op |-> "none"]
NoTxn    == [now |-> NULL, row |-> NULL]

TotalCalls == LET S[n \in 0 .. NumProcs] ==
                      IF n = 0 THEN 0 ELSE S[n - 1] + calls[n]
              IN  S[NumProcs]

\* Rows a table can hold before the server starts: every one of them
\* satisfies the one-open-rental-per-inventory invariant.
SeedRows == {RentalRow(1, 1, 1, 2, 3, 1), RentalRow(2, 1, 1, 2, 3, NULL)}

\* Time passes between statements.
Tick ==
    /\ clock < MaxClock
    /\ clock' = clock + 1
    /\ UNCHANGED <<rental, rental_id_seq, pc, args, txn, result, calls>>

\* rent_movie, lines 160-172: open a connection, run the availability
\* SELECT (which starts the transaction) and return the error string when a
\* row comes back; leaving the with-block commits the empty transaction.
RentCheck(p, customer_id, inventory_id, staff_id) ==
    /\ pc[p] = "idle"
    /\ TotalCalls < MaxCalls
    /\ calls' = [calls EXCEPT ![p] = @ + 1]
    /\ args' = [args EXCEPT ![p] = [op |-> "rent_movie",
                                    customer_id |-> customer_id,
                                    inventory_id |-> inventory_id,
                                    staff_id |-> staff_id]]
    /\ IF OpenRentals(rental, inventory_id) # {}
       THEN /\ result' = [result EXCEPT ![p] =
                              Returned(MsgAlreadyRented(inventory_id))]
            /\ UNCHANGED <<pc, txn>>
       ELSE /\ pc' = [pc EXCEPT ![p] = "rent_insert"]
            /\ txn' = [txn EXCEPT ![p] = [now |-> clock, row |-> NULL]]
            /\ result' = [result EXCEPT ![p] = NoResult]
    /\ UNCHANGED <<rental, rental_id_seq, clock>>

\* rent_movie, lines 175-183: INSERT ... RETURNING rental_id.  The row is
\* private to the transaction; the sequence value is consumed at once.
RentInsert(p) ==
    /\ pc[p] = "rent_insert"
    /\ txn' = [txn EXCEPT ![p].row =
                   NewRental(rental_id_seq, txn[p].now, args[p])]
    /\ rental_id_seq' = rental_id_seq + 1
    /\ pc' = [pc EXCEPT ![p] = "rent_commit"]
    /\ UNCHANGED <<rental, clock, args, result, calls>>

\* rent_movie, lines 184-185: conn.commit() publishes the row.
RentCommit(p) ==
    /\ pc[p] = "rent_commit"
    /\ rental' = rental \cup {txn[p].row}
    /\ result' = [result EXCEPT ![p] =
                      Returned(MsgRented(txn[p].row.rental_id))]
    /\ txn' = [txn EXCEPT ![p] = NoTxn]
    /\ pc' = [pc EXCEPT ![p] = "idle"]
    /\ UNCHANGED <<rental_id_seq, clock, args, calls>>

\* return_movie, lines 193-203: SELECT return_date and the two rejections.
ReturnCheck(p, rental_id) ==
    /\ pc[p] = "idle"
    /\ TotalCalls < MaxCalls
    /\ calls' = [calls EXCEPT ![p] = @ + 1]
    /\ args' = [args EXCEPT ![p] = [op |-> "return_movie",
                                    rental_id |-> rental_id]]
    /\ LET found == RentalById(rental, rental_id)
       IN  IF found = {}
           THEN /\ result' = [result EXCEPT ![p] =
                                  Returned(MsgNotFound(rental_id))]
                /\ UNCHANGED <<pc, txn>>
           ELSE LET row == CHOOSE r \in found : TRUE
                IN  IF AlreadyReturned(row)
                    THEN /\ result' = [result EXCEPT ![p] =
                                  Returned(MsgAlreadyReturned(rental_id,
                                                              row.return_date))]
                         /\ UNCHANGED <<pc, txn>>
                    ELSE /\ pc' = [pc EXCEPT ![p] = "return_update"]
                         /\ txn' = [txn EXCEPT ![p] =
                                        [now |-> clock, row |-> NULL]]
                         /\ result' = [result EXCEPT ![p] = NoResult]
    /\ UNCHANGED <<rental, rental_id_seq, clock>>

\* Callers holding the row lock of an uncommitted UPDATE of rental_id.
LockHolders(id) ==
    {q \in Procs : pc[q] = "return_commit" /\ args[q].rental_id = id}

\* return_movie, lines 206-213: the UPDATE.  It waits for the row lock of a
\* concurrent uncommitted UPDATE, then applies to the latest committed
\* version of the row, whose rental_id still matches.
ReturnUpdate(p) ==
    /\ pc[p] = "return_update"
    /\ LockHolders(args[p].rental_id) = {}
    /\ pc' = [pc EXCEPT ![p] = "return_commit"]
    /\ UNCHANGED <<rental, rental_id_seq, clock, args, txn, result, calls>>

\* return_movie, lines 214-215: conn.commit() publishes the new return_date
\* (NOW() is the transaction's start time) and releases the row lock.
ReturnCommit(p) ==
    /\ pc[p] = "return_commit"
    /\ rental' = UpdateReturnDate(rental, args[p].rental_id, txn[p].now)
    /\ result' = [result EXCEPT ![p] =
                      Returned(MsgReturned(args[p].rental_id))]
    /\ txn' = [txn EXCEPT ![p] = NoTxn]
    /\ pc' = [pc EXCEPT ![p] = "idle"]
    /\ UNCHANGED <<rental_id_seq, clock, args, calls>>


-----------------------------------------------------------------------------
(* run_select_query *)

\* the guard written as a containment test: "select" in query.lower()
IsSelectPrefix_Contains(text) == CountSub(Lower(text), KwSelect) > 0

\* line 68: query.strip().lower().startswith("select")
IsSelectPrefix(text) == StartsWith(Lower(Strip(text)), KwSelect)

\* line 71: f"{query.rstrip(';')} LIMIT {limit}"
LimitedQuery(text, limit) ==
    RStripChars(text, {";"}) \o LimitSuffix \o Decimal(limit)

(* What the server does with the text of cur.execute: the whole string is   *)
(* parsed first, statements separated by ";", then run in order inside the  *)
(* connection's transaction.                                                *)
RECURSIVE SplitStatements(_)
SplitStatements(s) ==
    IF \E i \in 1 .. Len(s) : s[i] = ";"
    THEN LET i == CHOOSE k \in 1 .. Len(s) :
                      s[k] = ";" /\ \A j \in 1 .. k - 1 : s[j] # ";"
         IN  <<SubSeq(s, 1, i - 1)>> \o SplitStatements(SubSeq(s, i + 1, Len(s)))
    ELSE <<s>>

\* first whitespace-delimited word of a statement, lower-cased
RECURSIVE UntilSpace(_)
UntilSpace(s) ==
    IF s = <<>> \/ Head(s) \in Whitespace THEN <<>>
    ELSE <<Head(s)>> \o UntilSpace(Tail(s))

FirstWord(stmt) == UntilSpace(Lower(Strip(stmt)))

\* the grammar the model needs: empty statements, SELECT with at most one
\* LIMIT clause, DELETE (which takes no LIMIT clause); anything else is a
\* syntax error
StatementParses(stmt) ==
    \/ Strip(stmt) = <<>>
    \/ FirstWord(stmt) = KwSelect /\ CountSub(Lower(stmt), KwLimit) <= 1
    \/ FirstWord(stmt) = KwDelete /\ CountSub(Lower(stmt), KwLimit) = 0

TextParses(text) ==
    LET stmts == SplitStatements(text)
    IN  \A i \in 1 .. Len(stmts) : StatementParses(stmts[i])

\* DELETE FROM rental empties the table; SELECT leaves it alone
StatementEffect(stmt, tbl) == IF FirstWord(stmt) = KwDelete THEN {} ELSE tbl

RECURSIVE RunStatements(_, _)
RunStatements(stmts, tbl) ==
    IF stmts = <<>> THEN tbl
    ELSE RunStatements(Tail(stmts), StatementEffect(Head(stmts), tbl))

ExecuteText(text, tbl) == RunStatements(SplitStatements(text), tbl)

MaxTail == 2

\* Query texts the caller may pass: leading whitespace, a first word, the
\* rest of the statement(s), and a tail of semicolons and blanks.
Leads  == {<<>>, <<" ", "\t">>}
Heads  == {<<"s", "e", "l", "e", "c", "t">>, <<"S", "e", "L", "e", "c", "T">>,
           <<"d", "e", "l", "e", "t", "e">>}
Bodies == {<<" ", "1">>,
           <<" ", "1", " ", "l", "i", "m", "i", "t", " ", "5">>,
           <<" ", "f", "r", "o", "m", " ", "r", "e", "n", "t", "a", "l">>,
           <<" ", "1", ";", " ", "d", "e", "l", "e", "t", "e", " ", "f", "r", "o", "m", " ", "r", "e", "n", "t", "a", "l", ";", " ", "s", "e", "l", "e", "c", "t", " ", "1">>}
Tails  == UNION {[1 .. n -> {";", " "}] : n \in 0 .. MaxTail}
Limits == {7, 50}

QueryTexts == {l \o h \o b \o t : l \in Leads, h \in Heads, b \in Bodies, t \in Tails}

NoQuery == [text |-> <<>>, limit |-> 50]

\* run_select_query, lines 63-76
RunSelectQuery(text, limit) ==
    /\ query' = [text |-> text, limit |-> limit]
    /\ IF ~IsSelectPrefix(text)
       THEN \* raise ValueError("Only SELECT queries are allowed")
            /\ outcome' = "raised"
            /\ sent' = <<>>
            /\ connections' = 0
            /\ rental' = rental
       ELSE LET limited_query == LimitedQuery(text, limit)
            IN  /\ connections' = 1
                /\ sent' = limited_query
                /\ IF TextParses(limited_query)
                   THEN \* fetchall(); leaving the with-block commits
                        /\ rental' = ExecuteText(limited_query, rental)
                        /\ outcome' = "rows"
                   ELSE \* psycopg2 raises; the with-block rolls back
                        /\ rental' = rental
                        /\ outcome' = "db_error"

-----------------------------------------------------------------------------
(* search_movies *)

MaxLimit == 2

\* Optional[...] arguments: <<>> is None, <<v>> carries the value v
None == <<>>
Some(v) == <<v>>

\* Python truth value of an Optional[int] and of an Optional[str]
TruthyInt(opt) == opt # None /\ opt[1] # 0
TruthyStr(opt) == opt # None /\ opt[1] # <<>>

\* Rows the tables can hold.  description is nullable; a film may have no
\* category or several (film_category is keyed by the pair).
FilmCandidates ==
    {[film_id |-> 1, title |-> <<"A", "b">>, description |-> Some(<<"x">>),
      release_year |-> 2006],
     [film_id |-> 2, title |-> <<"b">>, description |-> None,
      release_year |-> 2007]}
category ==
    {[category_id |-> 1, name |-> <<"A", "x">>],
     [category_id |-> 2, name |-> <<"b">>]}

SearchTerms == {None, Some(<<>>), Some(<<"a">>)}
Genres      == {None, Some(<<>>), Some(<<"B">>)}
Years       == {None, Some(0), Some(2006), Some(2007)}

NoSearch == [search_term |-> None, genre |-> None, year |-> None, limit |-> 0]

\* value ILIKE '%term%' for a term without wildcard characters
ILike(value, term) == term = <<>> \/ CountSub(Lower(value), Lower(term)) > 0

\* lines 90-100: film JOIN film_category JOIN category, with the selected
\* columns the properties read
JoinedRows ==
    {[film_id |-> t[1].film_id, title |-> t[1].title, genre |-> t[3].name,
      release_year |-> t[1].release_year, description |-> t[1].description] :
        t \in {u \in film \X film_category \X category :
                  /\ u[1].film_id = u[2].film_id
                  /\ u[2].category_id = u[3].category_id}}

\* lines 101-115: the WHERE clause as assembled for the given arguments
Where(r, search_term, genre, year) ==
    /\ TruthyStr(search_term)
       => \/ ILike(r.title, search_term[1])
          \/ r.description # None /\ ILike(r.description[1], search_term[1])
    /\ TruthyStr(genre) => ILike(r.genre, genre[1])
    /\ TruthyInt(year) => r.release_year = year[1]

\* ORDER BY f.title: titles compare letter by letter, case aside
LetterRank(c) == CHOOSE i \in 1 .. 26 : LowerCase[i] = LowerChar(c)

RECURSIVE TitleLE(_, _)
TitleLE(a, b) ==
    IF a = <<>> THEN TRUE
    ELSE IF b = <<>> THEN FALSE
    ELSE IF LetterRank(Head(a)) # LetterRank(Head(b))
         THEN LetterRank(Head(a)) < LetterRank(Head(b))
         ELSE TitleLE(Tail(a), Tail(b))

Min(a, b) == IF a < b THEN a ELSE b

\* line 117: ORDER BY f.title LIMIT n.  Rows of equal title come in an
\* order the database chooses.
OrderedLimit(S, n) ==
    {q \in [1 .. Min(n, Cardinality(S)) -> S] :
        /\ \A i, j \in DOMAIN q : i < j => q[i] # q[j] /\ TitleLE(q[i].title, q[j].title)
        /\ \A r \in S : (\A i \in DOMAIN q : q[i] # r)
                            => \A i \in DOMAIN q : TitleLE(q[i].title, r.title)}

\* search_movies, lines 80-123
SearchMovies(search_term, genre, year, limit) ==
    /\ search' = [search_term |-> search_term, genre |-> genre,
                  year |-> year, limit |-> limit]
    /\ rows' \in OrderedLimit({r \in JoinedRows :
                                  Where(r, search_term, genre, year)}, limit)
    /\ UNCHANGED <<film, film_category>>

-----------------------------------------------------------------------------
(* Specifications *)

\* Concurrent callers of rent_movie and return_movie over a rental table
\* that satisfies the one-open-rental invariant.
InitRental ==
    /\ rental \in SUBSET SeedRows
    /\ rental_id_seq = 3
    /\ clock = 2
    /\ pc = [p \in Procs |-> "idle"]
    /\ args = [p \in Procs |-> NoArgs]
    /\ txn = [p \in Procs |-> NoTxn]
    /\ result = [p \in Procs |-> NoResult]
    /\ calls = [p \in Procs |-> 0]
    /\ query = NoQuery
    /\ sent = <<>>
    /\ connections = 0
    /\ outcome = "none"
    /\ film = {}
    /\ film_category = {}
    /\ search = NoSearch
    /\ rows = <<>>

\* Calls of run_select_query over a populated rental table.
InitQuery ==
    /\ rental = SeedRows
    /\ rental_id_seq = 3
    /\ clock = 2
    /\ pc = [p \in Procs |-> "idle"]
    /\ args = [p \in Procs |-> NoArgs]
    /\ txn = [p \in Procs |-> NoTxn]
    /\ result = [p \in Procs |-> NoResult]
    /\ calls = [p \in Procs |-> 0]
    /\ query = NoQuery
    /\ sent = <<>>
    /\ connections = 0
    /\ outcome = "none"
    /\ film = {}
    /\ film_category = {}
    /\ search = NoSearch
    /\ rows = <<>>

\* Calls of search_movies over any film table and any film_category rows
\* that reference it.
InitSearch ==
    /\ rental = SeedRows
    /\ rental_id_seq = 3
    /\ clock = 2
    /\ pc = [p \in Procs |-> "idle"]
    /\ args = [p \in Procs |-> NoArgs]
    /\ txn = [p \in Procs |-> NoTxn]
    /\ result = [p \in Procs |-> NoResult]
    /\ calls = [p \in Procs |-> 0]
    /\ query = NoQuery
    /\ sent = <<>>
    /\ connections = 0
    /\ outcome = "none"
    /\ film \in SUBSET FilmCandidates
    /\ film_category \in
           SUBSET {[film_id |-> f.film_id, category_id |-> c.category_id] :
                      f \in film, c \in category}
    /\ search = NoSearch
    /\ rows = <<>>


NextRental ==
    \/ Tick /\ UNCHANGED <<queryVars, searchVars>>
    \/ \E p \in Procs, c \in Customers, i \in Inventories, s \in Staff :
           RentCheck(p, c, i, s) /\ UNCHANGED <<queryVars, searchVars>>
    \/ \E p \in Procs : RentInsert(p) /\ UNCHANGED <<queryVars, searchVars>>
    \/ \E p \in Procs : RentCommit(p) /\ UNCHANGED <<queryVars, searchVars>>
    \/ \E p \in Procs, id \in 1 .. rental_id_seq :
           ReturnCheck(p, id) /\ UNCHANGED <<queryVars, searchVars>>
    \/ \E p \in Procs : ReturnUpdate(p) /\ UNCHANGED <<queryVars, searchVars>>
    \/ \E p \in Procs : ReturnCommit(p) /\ UNCHANGED <<queryVars, searchVars>>

SpecRental == InitRental /\ [][NextRental]_vars

NextQuery ==
    \E text \in QueryTexts, limit \in Limits :
        /\ RunSelectQuery(text, limit)
        /\ UNCHANGED <<rental_id_seq, clock, pc, args, txn, result, calls>>
        /\ UNCHANGED searchVars

NextSearch ==
    \E search_term \in SearchTerms, genre \in Genres, year \in Years,
       limit \in 0 .. MaxLimit :
        /\ SearchMovies(search_term, genre, year, limit)
        /\ UNCHANGED <<rentalVars, queryVars>>

SpecSearch == InitSearch /\ [][NextSearch]_vars

SpecQuery == InitQuery /\ [][NextQuery]_vars

-----------------------------------------------------------------------------
(* Properties of rent_movie and return_movie, checked under SpecRental *)

PhraseRentedOut ==
    <<"a", "l", "r", "e", "a", "d", "y", " ", "r", "e", "n", "t", "e", "d",
      " ", "o", "u", "t">>
PhraseAlreadyReturned ==
    <<"a", "l", "r", "e", "a", "d", "y", " ", "r", "e", "t", "u", "r", "n",
      "e", "d">>
PhraseRentalId ==
    <<"S", "u", "c", "c", "e", "s", "s", "f", "u", "l", "l", "y", " ", "r",
      "e", "n", "t", "e", "d", ".", " ", "R", "e", "n", "t", "a", "l", " ",
      "I", "D", ":", " ">>

Contains(text, phrase) == CountSub(text, phrase) > 0

\* caller p starts a call in this step
Invokes(p, op) == calls'[p] # calls[p] /\ args'[p].op = op

\* C1: in every reachable state each inventory_id has at most one rental
\* row whose return_date is null, also when the check and mutate statements
\* of concurrent rent_movie calls interleave.
C1_OneOpenRentalPerInventory ==
    \A i \in Inventories :
        Cardinality({r \in rental : r.inventory_id = i /\ r.return_date = NULL}) <= 1

C6_RentInsertsOneRow ==
    [][\A p \in Procs :
          /\ (/\ Invokes(p, "rent_movie")
              /\ ~ \E r \in rental : /\ r.inventory_id = args'[p].inventory_id
                                     /\ r.return_date = NULL)
             => pc'[p] = "rent_insert" /\ rental' = rental
          /\ pc[p] = "rent_insert" => pc'[p] \in {"rent_insert", "rent_commit"}
          /\ (pc[p] = "rent_insert" /\ pc'[p] = "rent_commit") => rental' = rental
          /\ pc[p] = "rent_commit" /\ pc'[p] # "rent_commit"
             => \E row \in rental' :
                   /\ pc'[p] = "idle"
                   /\ \A r \in rental : r.rental_id # row.rental_id
                   /\ rental' = rental \cup {row}
                   /\ row.inventory_id = args[p].inventory_id
                   /\ row.customer_id = args[p].customer_id
                   /\ row.staff_id = args[p].staff_id
                   /\ row.return_date = NULL
                   /\ result'[p].raised = FALSE
                   /\ result'[p].text = PhraseRentalId \o Decimal(row.rental_id)]_vars

C6_Witness ==
    \E p \in Procs, row \in rental :
        /\ pc[p] = "idle"
        /\ args[p].op = "rent_movie"
        /\ result[p].text = PhraseRentalId \o Decimal(row.rental_id)
        /\ row.inventory_id = args[p].inventory_id
        /\ row.return_date = NULL
        /\ Cardinality(rental) >= 2

\* C7: return_movie invoked with a rental_id whose return_date is set
\* returns (does not raise) a string containing "already returned" and
\* leaves every row of the table unchanged.
C7_ReturnedIsRejected ==
    [][\A p \in Procs :
          (/\ Invokes(p, "return_movie")
           /\ \E r \in rental : /\ r.rental_id = args'[p].rental_id
                                /\ r.return_date # NULL)
          => /\ result'[p].raised = FALSE
             /\ Contains(result'[p].text, PhraseAlreadyReturned)
             /\ rental' = rental
             /\ pc'[p] = "idle"]_vars

C7_Witness ==
    \E p \in Procs :
        /\ pc[p] = "idle"
        /\ args[p].op = "return_movie"
        /\ Contains(result[p].text, PhraseAlreadyReturned)
        /\ \E r \in rental : /\ r.rental_id = args[p].rental_id
                             /\ r.return_date # NULL

\* C10: once a rental row's return_date is set no later step changes the
\* row, under any interleaving of rent_movie and return_movie calls.
C10_ReturnDateWrittenOnce ==
    [][\A r \in rental : r.return_date # NULL => r \in rental']_vars

-----------------------------------------------------------------------------
(* Properties of run_select_query, checked under SpecQuery *)

\* text, stripped of leading whitespace, begins with the letters of
\* "select" in either case
BeginsWithSelect(text) ==
    \E n \in 0 .. Len(text) :
        /\ \A i \in 1 .. n : text[i] \in Whitespace
        /\ Len(text) >= n + Len(KwSelect)
        /\ \A k \in 1 .. Len(KwSelect) :
              text[n + k] \in {KwSelect[k], UpperCase[CHOOSE j \in 1 .. 26 :
                                                          LowerCase[j] = KwSelect[k]]}

\* C2: a call whose query text does not begin with "select" (leading and
\* trailing whitespace and letter case aside) is rejected by raising; it
\* opens no connection, hands no statement to the database and leaves the
\* table as it was.
C2_NonSelectIsRejected ==
    [][~BeginsWithSelect(query'.text)
          => /\ outcome' = "raised"
             /\ connections' = 0
             /\ sent' = <<>>
             /\ rental' = rental]_vars

C2_Witness ==
    /\ outcome = "raised"
    /\ ~BeginsWithSelect(query.text)
    /\ Contains(Lower(query.text), KwSelect)

\* C3: for every accepted query text and limit n the statement sent ends
\* with " LIMIT n", holds no other LIMIT clause, and the clause follows the
\* query itself: no statement separator (with or without blanks after it)
\* is left before it.
C3_ExactlyOneLimit ==
    outcome \in {"rows", "db_error"}
    => LET suffix == LimitSuffix \o Decimal(query.limit)
           before == RStripChars(SubSeq(sent, 1, Len(sent) - Len(suffix)),
                                 Whitespace)
       IN  /\ EndsWith(sent, suffix)
           /\ CountSub(Lower(sent), KwLimit) = 1
           /\ before # <<>>
           /\ before[Len(before)] # ";"

\* some statement of the text is not a SELECT
HasNonSelectStatement(text) ==
    LET stmts == SplitStatements(text)
    IN  \E i \in 1 .. Len(stmts) :
            Strip(stmts[i]) # <<>> /\ FirstWord(stmts[i]) # KwSelect

\* C4: every query text holding a non-SELECT statement is rejected, and no
\* call changes the contents of the database.
C4_OnlySelectRuns ==
    [][/\ HasNonSelectStatement(query'.text) => outcome' = "raised"
       /\ rental' = rental]_vars

-----------------------------------------------------------------------------
(* Properties of search_movies, checked under SpecSearch *)

\* C8: whenever an integer year is passed, every returned film has exactly
\* that release_year.
C8_YearIsExact ==
    search.year # None
    => \A i \in 1 .. Len(rows) : rows[i].release_year = search.year[1]

\* C9: called with no search_term, genre or year, search_movies returns the
\* first `limit` films of the title-ordered film table, each film once,
\* whatever categories the films have.
C9_NoFilterListsAllFilms ==
    (search.search_term = None /\ search.genre = None /\ search.year = None)
    => /\ Len(rows) = Min(search.limit, Cardinality(film))
       /\ \A i \in 1 .. Len(rows) : \E f \in film : f.film_id = rows[i].film_id
       /\ \A i, j \in 1 .. Len(rows) :
             i < j => /\ rows[i].film_id # rows[j].film_id
                      /\ TitleLE(rows[i].title, rows[j].title)
       /\ \A f \in film :
             (\A i \in 1 .. Len(rows) : rows[i].film_id # f.film_id)
             => \A i \in 1 .. Len(rows) : TitleLE(rows[i].title, f.title)

====
